---- MODULE Spec2Model ----
\* Authentication and session-token subsystem of legalizer-backend:
\* the /auth routes (routes/auth.ts), the repository functions they call
\* (db/repository.ts), the tables they act on (db/schema.sql) and the token
\* helpers (config/jwt.ts).
\*
\* A request handler is an async function: the code between two awaits runs
\* without interruption, and every repository call is one SQL statement.  One
\* action of the model is therefore one SQL statement together with the
\* handler code that runs on its result, up to the next repository call.  The
\* code before a handler's first repository call reads nothing but the request
\* body, so it is part of the same action as that first call.
\* Strings are sequences of one-character strings, so that lower-casing and
\* validation are computed character by character.
\* Nothing in the repository deletes a row of table users; specification
\* SpecDelete adds the deletion of a user by the database's administrator,
\* which the schema provides for with ON DELETE CASCADE.
\* Columns no handler reads (full_name, is_verified, created_at, updated_at and
\* refresh_tokens.id) are left out of the rows.
\*
\* Specifications:
\*   Spec         the /auth routes, a working store, a clock
\*   SpecDelete   Spec with users deleted on the database
\*   SpecFault    Spec with repository calls that throw
\*   SpecLive     SpecFault with every repository call returning or throwing in the end
\*   SpecCollision  SpecDelete with generateRefreshToken repeating a value
\*   SpecReports  the /reports routes, with register as the source of users
\*   SpecJwt      generateAccessToken and verifyAccessToken by the minute
\*   SpecSession  a protected route beside refresh, logout and logout-all
\*   SpecPolicy   the register route with passwords of every kind
\*   SpecPool     the repository functions' use of the connection pool
EXTENDS Integers, Sequences, FiniteSets, TLC

VARIABLES
    users,        \* rows of table users
    tokens,       \* rows of table refresh_tokens
    nextUserId,   \* next value of the sequence behind users.id
    nextToken,    \* number of refresh token values generated so far, plus 1
    now,          \* the clock, in minutes
    reqs,         \* number of requests received
    proc,         \* per request slot: the handler's position, inputs, locals and response
    issued,       \* history: the (token, user_id) pairs handed out in responses
    loggedOut,    \* history: token values of completed logout requests
    loggedOutAll, \* history: token values issued to a user before a completed logout-all of that user
    plaintext,    \* history: (user id, password) of every completed createUser
    denials,      \* history: the responses of refused logins, with their cause
    accessIssued, \* history: the access tokens handed out in responses
    reports,      \* rows of table reports
    nextReportId, \* next value of the sequence behind reports.id
    pool          \* the connection pool: operations waiting for a client, operations
                  \* inside their try block, clients checked out, and history

vars == <<users, tokens, nextUserId, nextToken, now, reqs, proc,
          issued, loggedOut, loggedOutAll, plaintext, denials,
          accessIssued, reports, nextReportId, pool>>

\* The variables the /auth routes leave alone.
reportVars == <<reports, nextReportId>>

-----------------------------------------------------------------------------
\* Bounds of the model.

NumProcs == 2
MaxRequests == 3
MaxTicks == 1
MaxOperations == 22

Procs == 1..NumProcs

\* Program constants.
RefreshExpiryDays == 7
AccessExpiryMinutes == 15
MinutesPerDay == 1440
MinPasswordLength == 8
PoolMax == 20

RefreshLifetime == RefreshExpiryDays * MinutesPerDay

\* The clock advances by a whole refresh-token lifetime at a time.
TickSteps == {RefreshLifetime}

-----------------------------------------------------------------------------
\* Strings.

UpperCase == <<"A","B","C","D","E","F","G","H","I","J","K","L","M",
               "N","O","P","Q","R","S","T","U","V","W","X","Y","Z">>
LowerCase == <<"a","b","c","d","e","f","g","h","i","j","k","l","m",
               "n","o","p","q","r","s","t","u","v","w","x","y","z">>
Digits == {"0","1","2","3","4","5","6","7","8","9"}

IsUpper(c) == \E i \in 1..26 : UpperCase[i] = c
IsLower(c) == \E i \in 1..26 : LowerCase[i] = c
IsDigit(c) == c \in Digits

toLowerChar(c) ==
    IF IsUpper(c) THEN LowerCase[CHOOSE i \in 1..26 : UpperCase[i] = c] ELSE c

\* String.prototype.toLowerCase
toLowerCase(s) == [i \in 1..Len(s) |-> toLowerChar(s[i])]

\* Request bodies.
EmailLower == <<"a","@","b",".","c">>
EmailUpper == <<"A","@","B",".","c">>
EmailOther == <<"x","@","y",".","z">>
EmailBad   == <<"a","b",".","c">>
NoString   == <<>>
Emails == {EmailLower, EmailUpper, EmailOther, EmailBad, NoString}

Passw0rd == <<"P","a","s","s","w","0","r","d">>
Valid123 == <<"V","a","l","i","d","1","2","3">>
short1   == <<"s","h","o","r","t","1">>
\* Passwords that break the rules of the policy one at a time and together.
NoUpperPw == <<"p","a","s","s","w","0","r","d">>
NoLowerPw == <<"P","A","S","S","W","0","R","D">>
NoDigitPw == <<"P","a","s","s","w","o","r","d">>
ShortPw   == <<"P","a","s","s","w","0","r">>
LettersPw == <<"p","a","s","s","w","o","r","d">>
DigitsPw  == <<"1","2","3","4","5","6","7","8">>
SymbolsPw == <<"!","!">>
PolicySamples == {NoUpperPw, NoLowerPw, NoDigitPw, ShortPw, LettersPw, DigitsPw, SymbolsPw}

Passwords == {Passw0rd, Valid123, short1, NoString} \cup PolicySamples

RegisterRequests ==
    {<<EmailLower, Passw0rd>>, <<EmailUpper, Passw0rd>>, <<EmailOther, Valid123>>,
     <<EmailLower, short1>>, <<EmailBad, Passw0rd>>,
     <<NoString, Passw0rd>>, <<EmailLower, NoString>>}

LoginRequests ==
    ({EmailLower, EmailUpper, EmailOther} \X {Passw0rd, Valid123})
    \cup {<<NoString, Passw0rd>>, <<EmailLower, NoString>>}

\* toLowerCase on the emails of the request bodies, computed once.
LowerCased == [e \in Emails |-> toLowerCase(e)]

\* A refresh token value is a non-empty string; generateRefreshToken returns
\* 64 random bytes, modelled as a value never returned before.  ForgedToken is
\* a value the generator never returns.
TokenValue(n) == <<n>>
ForgedToken == <<0>>

-----------------------------------------------------------------------------
\* utils/password.ts

\* /^[^\s@]+@[^\s@]+\.[^\s@]+$/ : one "@", a non-empty local part, and a
\* domain with a dot that has text on both sides.
isValidEmail(s) ==
    /\ \A i \in 1..Len(s) : s[i] # " "
    /\ \E i \in 2..Len(s) :
          /\ s[i] = "@"
          /\ \A k \in 1..Len(s) : s[k] = "@" => k = i
          /\ \E j \in (i+2)..(Len(s)-1) : s[j] = "."

PolicyErrors(p) ==
    (IF Len(p) < MinPasswordLength THEN {"length"} ELSE {})
    \cup (IF \E i \in 1..Len(p) : IsUpper(p[i]) THEN {} ELSE {"uppercase"})
    \cup (IF \E i \in 1..Len(p) : IsLower(p[i]) THEN {} ELSE {"lowercase"})
    \cup (IF \E i \in 1..Len(p) : IsDigit(p[i]) THEN {} ELSE {"digit"})

isValidPassword(p) == [valid |-> PolicyErrors(p) = {}, errors |-> PolicyErrors(p)]

\* The two validators on the request bodies, computed once.
EmailValid == [e \in Emails |-> isValidEmail(e)]
PasswordCheck == [p \in Passwords |-> isValidPassword(p)]

\* bcrypt: the hash carries its salt, and the digest is a one-way function of
\* salt and password that differs for different passwords.  The salt is
\* random: a value no earlier hash has used.
SaltValue(n) == <<"salt", n>>

hashPassword(p, salt) == [salt |-> salt, digest |-> <<salt, p>>]

comparePassword(p, hash) == hash.digest = <<hash.salt, p>>

-----------------------------------------------------------------------------
\* config/jwt.ts

AccessSecret == "change-me-in-production-access"

\* The HMAC of jwt.sign: a one-way function of the secret and the claims.
Signature(secret, userId, email, iat, exp) == <<secret, userId, email, iat, exp>>

\* jwt.sign(payload, secret, {expiresIn}): the claims, the time of issue, the
\* expiry and the signature over them.
generateAccessToken(userId, email) ==
    [userId |-> userId, email |-> email, iat |-> now,
     exp |-> now + AccessExpiryMinutes,
     sig |-> Signature(AccessSecret, userId, email, now, now + AccessExpiryMinutes)]

\* No token, and the null of verifyAccessToken.
NoAccess == [userId |-> 0, email |-> NoString, iat |-> 0, exp |-> 0, sig |-> <<>>]
NoClaims == [userId |-> 0, email |-> NoString, iat |-> 0, exp |-> 0]

\* Variant: the expiry is not looked at.
verifyAccessToken_NoExpiry(token) ==
    IF token.sig = Signature(AccessSecret, token.userId, token.email, token.iat, token.exp)
    THEN [userId |-> token.userId, email |-> token.email, iat |-> token.iat, exp |-> token.exp]
    ELSE NoClaims

\* jwt.verify(token, secret) of package jsonwebtoken: it throws on a token
\* without its signature part, on a signature that is not the secret's for the
\* claims, and on a clock that has reached exp; otherwise it returns the
\* decoded claims.  A throw is field error, with the name of the error.
jwtVerify(token, secret) ==
    IF token.sig = <<>>
    THEN [error |-> "JsonWebTokenError", payload |-> NoClaims]
    ELSE IF token.sig # Signature(secret, token.userId, token.email, token.iat, token.exp)
    THEN [error |-> "JsonWebTokenError", payload |-> NoClaims]
    ELSE IF now >= token.exp
    THEN [error |-> "TokenExpiredError", payload |-> NoClaims]
    ELSE [error |-> "",
          payload |-> [userId |-> token.userId, email |-> token.email,
                       iat |-> token.iat, exp |-> token.exp]]

\* try { return jwt.verify(..) } catch { return null }
verifyAccessToken(token) ==
    IF jwtVerify(token, AccessSecret).error # ""
    THEN NoClaims
    ELSE jwtVerify(token, AccessSecret).payload

getRefreshTokenExpiry == now + RefreshLifetime

-----------------------------------------------------------------------------
\* db/schema.sql and db/repository.ts

NoUser == [id |-> 0, email |-> NoString,
           password_hash |-> [salt |-> <<"salt", 0>>, digest |-> <<<<"salt", 0>>, NoString>>]]
NoRow  == [user_id |-> 0, token |-> NoString, expires_at |-> 0]

\* Variant: table users without the unique constraint on email.
UsersEmailTaken_Never(email) == FALSE

\* users.email UNIQUE: an insert of a second row with the same email fails.
UsersEmailTaken(email) == \E u \in users : u.email = email

\* Variant: table refresh_tokens without the unique constraint on token.
TokenTaken_Never(token) == FALSE

\* refresh_tokens.token UNIQUE
TokenTaken(token) == \E r \in tokens : r.token = token

\* refresh_tokens.user_id REFERENCES users(id)
UserIdExists(userId) == \E u \in users : u.id = userId

findUserByEmail(email) ==
    LET rows == {u \in users : u.email = email}
    IN  IF rows # {} THEN CHOOSE u \in rows : TRUE ELSE NoUser

\* Variant: the lookup ignores the id.
findUserById_Any(userId) ==
    IF users # {} THEN CHOOSE u \in users : TRUE ELSE NoUser

findUserById(userId) ==
    LET rows == {u \in users : u.id = userId}
    IN  IF rows # {} THEN CHOOSE u \in rows : TRUE ELSE NoUser

\* Variant: the lookup without the expiry filter.
findRefreshToken_NoExpiry(token) ==
    LET rows == {r \in tokens : r.token = token}
    IN  IF rows # {} THEN CHOOSE r \in rows : TRUE ELSE NoRow

findRefreshToken(token) ==
    LET rows == {r \in tokens : r.token = token /\ r.expires_at > now}
    IN  IF rows # {} THEN CHOOSE r \in rows : TRUE ELSE NoRow

\* Variant: the delete matches no row.
deleteRefreshToken_None(token) == tokens

\* Variant: the delete removes only the user's expired rows.
deleteUserRefreshTokens_ExpiredOnly(userId) ==
    {r \in tokens : r.user_id # userId \/ r.expires_at > now}

\* Variant: the delete spares rows that have expired.
deleteRefreshToken_ValidOnly(token) ==
    {r \in tokens : r.token # token \/ r.expires_at <= now}

\* Variant: the delete removes every row of the token's owner.
deleteRefreshToken_Owner(token) ==
    {r \in tokens : \A o \in tokens : o.token = token => o.user_id # r.user_id}

\* DELETE FROM refresh_tokens WHERE token = $1
deleteRefreshToken(token) == {r \in tokens : r.token # token}

\* DELETE FROM refresh_tokens WHERE user_id = $1
deleteUserRefreshTokens(userId) == {r \in tokens : r.user_id # userId}

-----------------------------------------------------------------------------
\* routes/auth.ts: responses

Resp(status, body) == [status |-> status, body |-> body]
ErrorBody(msg) == [error |-> msg]
NoResp == Resp(0, ErrorBody(""))

UserView(user) == [id |-> user.id, email |-> user.email]

AuthResponse(accessToken, refreshToken, user) ==
    [accessToken |-> accessToken, refreshToken |-> refreshToken, user |-> UserView(user)]

\* The Authorization header: a scheme prefix and the rest.  NoHeader is a
\* request without the header.
Header(scheme, token) == <<scheme, token>>
NoHeader == Header("", NoAccess)

-----------------------------------------------------------------------------
\* middleware/auth.ts

AuthMissingResp ==
    Resp(401, [error |-> "Unauthorized", message |-> "Missing or invalid authorization header"])
AuthInvalidResp ==
    Resp(401, [error |-> "Unauthorized", message |-> "Invalid or expired token"])

\* Variant: the preHandler also wants a stored session of the token's user.
authenticateToken_Sessions(authHeader) ==
    IF authHeader = NoHeader \/ authHeader[1] # "Bearer "
    THEN AuthMissingResp
    ELSE IF \/ verifyAccessToken(authHeader[2]) = NoClaims
            \/ ~\E row \in tokens : row.user_id = authHeader[2].userId
    THEN AuthInvalidResp
    ELSE NoResp

\* The preHandler of the protected routes: NoResp lets the handler run, with
\* request.user = verifyAccessToken(token).
authenticateToken(authHeader) ==
    IF authHeader = NoHeader \/ authHeader[1] # "Bearer "
    THEN AuthMissingResp
    ELSE IF verifyAccessToken(authHeader[2]) = NoClaims
    THEN AuthInvalidResp
    ELSE NoResp

-----------------------------------------------------------------------------
\* routes/auth.ts: request slots

\* A request slot with no request in it.
Idle ==
    [pc |-> "idle", kind |-> "none",
     email |-> NoString, password |-> NoString,       \* request body
     refreshToken |-> NoString, userId |-> 0,
     authorization |-> NoHeader,
     claims |-> NoClaims,                             \* request.user
     user |-> NoUser, accessToken |-> NoAccess,       \* the handler's locals
     newToken |-> NoString, refreshExpiry |-> 0, storedToken |-> NoRow,
     resp |-> NoResp,                                 \* the response sent
     at |-> 0,                \* history: time of the findRefreshToken call, of the preHandler
     failed |-> 0,            \* history: calls made when a repository call threw, 0 if none did
     reportId |-> 0,          \* report routes: params.id as parseInt returns it, 0 for NaN
     report |-> NoString,     \* report routes: body.report
     total |-> 0,             \* report routes: the count getReportsByUser read
     rows |-> {},             \* history: report routes: the rows the request read or deleted
     unauth |-> FALSE,        \* history: report routes: authenticateToken refuses the header
     calls |-> 0,             \* history: repository calls made by the request
     wrote |-> 0,             \* history: rows the request inserted or deleted
     dup |-> FALSE,           \* history: register: the email was taken on arrival
     afterLogout |-> FALSE,   \* history: refresh, logout: arrived after a logout of its token
     afterLogoutAll |-> FALSE,\* history: refresh: arrived after a logout-all covering its token
     revoked |-> FALSE,       \* history: report routes: arrived with every session of the caller logged out
     again |-> FALSE]         \* history: refresh: arrived after a successful refresh of its token

Reply(r, resp) == [r EXCEPT !.pc = "done", !.resp = resp]

Called(r) == [r EXCEPT !.calls = @ + 1]

\* A slot is free when it holds no request or one that has been answered.  The
\* slots are interchangeable, so a new request goes into the first free one.
\* An answered request stays visible in its slot for one step: the next step
\* of the system finds it delivered.
Free(p) == proc[p].pc \in {"idle", "done"}

Accepts(p) ==
    /\ reqs < MaxRequests
    /\ Free(p)
    /\ \A q \in Procs : q < p => ~Free(q)

Delivered == [q \in Procs |-> IF proc[q].pc = "done" THEN Idle ELSE proc[q]]

\* Request p arrives and its handler runs up to the end of record r.
Arrive(p, r) ==
    /\ Accepts(p)
    /\ reqs' = reqs + 1
    /\ proc' = [Delivered EXCEPT ![p] = r]

\* The handler in slot p runs on to the end of record r.
Continue(p, r) == proc' = [Delivered EXCEPT ![p] = r]

\* Token values a client can present: the ones it was sent, a made-up one, none.
ClientTokens == {i.token : i \in issued} \cup {ForgedToken, NoString}

-----------------------------------------------------------------------------
\* POST /auth/register

\* Variant: only one of the violations is reported.
PolicyDetails_One(validation) == {CHOOSE e \in validation.errors : TRUE}

\* details: passwordValidation.errors
PolicyDetails(validation) == validation.errors

\* Variant: the password policy is not checked.
RegisterValidation_NoPolicy(email, password) ==
    IF email = NoString \/ password = NoString
    THEN Resp(400, ErrorBody("Email and password are required"))
    ELSE IF ~EmailValid[email]
    THEN Resp(400, ErrorBody("Invalid email format"))
    ELSE NoResp

\* The checks that precede the first repository call; NoResp when all pass.
RegisterValidation(email, password) ==
    IF email = NoString \/ password = NoString
    THEN Resp(400, ErrorBody("Email and password are required"))
    ELSE IF ~EmailValid[email]
    THEN Resp(400, ErrorBody("Invalid email format"))
    ELSE IF ~PasswordCheck[password].valid
    THEN Resp(400, [error |-> "Password does not meet requirements",
                    details |-> PolicyDetails(PasswordCheck[password])])
    ELSE NoResp

\* Variant: the existence check looks up the email as submitted.
RegisterLookupEmail_Raw(email) == email

\* The email the existence check looks up, and the email the insert stores.
RegisterLookupEmail(email) == LowerCased[email]
RegisterInsertEmail(email) == LowerCased[email]

RegisterConflictResp == Resp(409, ErrorBody("User with this email already exists"))
RegisterFailedResp == Resp(500, ErrorBody("Failed to register user"))

\* Validation, then findUserByEmail; a free email leads on to hashPassword.
RegisterCheck(r) ==
    IF RegisterValidation(r.email, r.password) # NoResp
    THEN Reply(r, RegisterValidation(r.email, r.password))
    ELSE IF findUserByEmail(RegisterLookupEmail(r.email)) # NoUser
    THEN Reply(Called(r), RegisterConflictResp)
    ELSE [Called(r) EXCEPT !.pc = "reg_create"]

Register(p, email, password) ==
    /\ Arrive(p, RegisterCheck([Idle EXCEPT
                   !.kind = "register", !.email = email, !.password = password,
                   !.dup = \E u \in users : u.email = LowerCased[email]]))
    /\ UNCHANGED <<pool, accessIssued, reportVars, users, tokens, nextUserId, nextToken, now,
                   issued, loggedOut, loggedOutAll, plaintext, denials>>

\* createUser, then the tokens are generated.  The insert draws an id from the
\* sequence whether or not the row is accepted; a rejected insert throws and
\* the handler's catch answers.
RegCreate(p) ==
    /\ proc[p].pc = "reg_create"
    /\ nextUserId' = nextUserId + 1
    /\ LET r == Called(proc[p])
           email == RegisterInsertEmail(r.email)
           user == [id |-> nextUserId, email |-> email,
                    password_hash |-> hashPassword(r.password, SaltValue(nextUserId))]
       IN  IF UsersEmailTaken(email)
           THEN /\ Continue(p, Reply(r, RegisterFailedResp))
                /\ UNCHANGED <<users, nextToken, plaintext>>
           ELSE /\ users' = users \cup {user}
                /\ plaintext' = plaintext \cup {<<user.id, r.password>>}
                /\ nextToken' = nextToken + 1
                /\ Continue(p, [r EXCEPT !.pc = "reg_token", !.user = user,
                                         !.wrote = @ + 1,
                                         !.accessToken = generateAccessToken(user.id, user.email),
                                         !.newToken = TokenValue(nextToken),
                                         !.refreshExpiry = getRefreshTokenExpiry])
    /\ UNCHANGED <<pool, accessIssued, reportVars, tokens, now, reqs, issued, loggedOut, loggedOutAll, denials>>

\* Variant: a user has one session; the insert replaces the user's other rows.
RefreshTokensWith_Replace(row) == {r \in tokens : r.user_id # row.user_id} \cup {row}

\* INSERT INTO refresh_tokens (user_id, token, expires_at): table refresh_tokens
\* with the new row.
RefreshTokensWith(row) == tokens \cup {row}

\* createRefreshToken, shared by register and login: the insert and the
\* response that follows it.
SaveRefreshToken(p, okStatus, failedResp) ==
    LET r == Called(proc[p])
        row == [user_id |-> r.user.id, token |-> r.newToken, expires_at |-> r.refreshExpiry]
    IN  IF TokenTaken(row.token) \/ ~UserIdExists(row.user_id)
        THEN /\ Continue(p, Reply(r, failedResp))
             /\ UNCHANGED <<tokens, issued, accessIssued>>
        ELSE /\ tokens' = RefreshTokensWith(row)
             /\ issued' = issued \cup {[token |-> row.token, user_id |-> row.user_id]}
             /\ accessIssued' = accessIssued \cup {r.accessToken}
             /\ Continue(p, Reply([r EXCEPT !.wrote = @ + 1],
                                  Resp(okStatus, AuthResponse(r.accessToken, r.newToken, r.user))))

RegToken(p) ==
    /\ proc[p].pc = "reg_token"
    /\ SaveRefreshToken(p, 201, RegisterFailedResp)
    /\ UNCHANGED <<pool, reportVars, users, nextUserId, nextToken, now, reqs,
                   loggedOut, loggedOutAll, plaintext, denials>>

-----------------------------------------------------------------------------
\* POST /auth/login

LoginValidation(email, password) ==
    IF email = NoString \/ password = NoString
    THEN Resp(400, ErrorBody("Email and password are required"))
    ELSE NoResp

\* Variant: an unknown email gets an answer of its own.
LoginUnknownUserResp_NotFound == Resp(404, ErrorBody("User not found"))

LoginUnknownUserResp == Resp(401, ErrorBody("Invalid email or password"))
LoginWrongPasswordResp == Resp(401, ErrorBody("Invalid email or password"))
LoginFailedResp == Resp(500, ErrorBody("Failed to login"))

\* Variant: the result of comparePassword is ignored.
LoginPasswordValid_Any(password, user) == TRUE

\* The password check on the row the lookup returned.
LoginPasswordValid(password, user) == comparePassword(password, user.password_hash)

\* Validation, findUserByEmail, comparePassword, then the tokens are generated.
LoginCheck(r) ==
    LET user == findUserByEmail(LowerCased[r.email])
    IN  IF LoginValidation(r.email, r.password) # NoResp
        THEN Reply(r, LoginValidation(r.email, r.password))
        ELSE IF user = NoUser
        THEN Reply(Called(r), LoginUnknownUserResp)
        ELSE IF ~LoginPasswordValid(r.password, user)
        THEN Reply([Called(r) EXCEPT !.user = user], LoginWrongPasswordResp)
        ELSE [Called(r) EXCEPT !.pc = "login_token", !.user = user,
                               !.accessToken = generateAccessToken(user.id, user.email),
                               !.newToken = TokenValue(nextToken),
                               !.refreshExpiry = getRefreshTokenExpiry]

\* A login refused after the user lookup, as the client sees it.
Denial(r) == [known |-> r.user # NoUser, resp |-> r.resp, wrote |-> r.wrote]

Login(p, email, password) ==
    /\ LET r == LoginCheck([Idle EXCEPT !.kind = "login", !.email = email,
                                        !.password = password])
       IN  /\ Arrive(p, r)
           /\ nextToken' = IF r.pc = "login_token" THEN nextToken + 1 ELSE nextToken
           /\ denials' = IF r.pc = "done" /\ r.calls > 0
                         THEN denials \cup {Denial(r)} ELSE denials
    /\ UNCHANGED <<pool, accessIssued, reportVars, users, tokens, nextUserId, now,
                   issued, loggedOut, loggedOutAll, plaintext>>

LoginToken(p) ==
    /\ proc[p].pc = "login_token"
    /\ SaveRefreshToken(p, 200, LoginFailedResp)
    /\ UNCHANGED <<pool, reportVars, users, nextUserId, nextToken, now, reqs,
                   loggedOut, loggedOutAll, plaintext, denials>>

-----------------------------------------------------------------------------
\* POST /auth/refresh

RefreshMissingResp == Resp(400, ErrorBody("Refresh token is required"))
RefreshInvalidResp == Resp(401, ErrorBody("Invalid or expired refresh token"))
RefreshNoUserResp == Resp(401, ErrorBody("User not found"))

\* Variant: the refresh token is consumed by its use.
RefreshTokensAfter_Rotate(storedToken) == tokens \ {storedToken}

\* Variant: the handler writes the row it found back.
RefreshTokensAfter_Restore(storedToken) == tokens \cup {storedToken}

\* Variant: a use of the token renews the session (sliding expiry).
RefreshTokensAfter_Extend(storedToken) ==
    (tokens \ {storedToken})
    \cup {[storedToken EXCEPT !.expires_at = now + RefreshLifetime]}

\* Table refresh_tokens after the handler has used the row it found: no
\* statement of the handler writes to the table.
RefreshTokensAfter(storedToken) == tokens

\* The token check, then findRefreshToken.
RefreshCheck(r) ==
    IF r.refreshToken = NoString
    THEN Reply(r, RefreshMissingResp)
    ELSE IF findRefreshToken(r.refreshToken) = NoRow
    THEN Reply(Called(r), RefreshInvalidResp)
    ELSE [Called(r) EXCEPT !.pc = "ref_user",
                           !.storedToken = findRefreshToken(r.refreshToken)]

Refreshed200(q, token) ==
    /\ proc[q].pc = "done"
    /\ proc[q].kind = "refresh"
    /\ proc[q].refreshToken = token
    /\ proc[q].resp.status = 200

Refresh(p, token) ==
    /\ Arrive(p, RefreshCheck([Idle EXCEPT
                   !.kind = "refresh", !.refreshToken = token, !.at = now,
                   !.afterLogout = token \in loggedOut,
                   !.afterLogoutAll = token \in loggedOutAll,
                   !.again = \E q \in Procs : Refreshed200(q, token)]))
    /\ UNCHANGED <<pool, accessIssued, reportVars, users, tokens, nextUserId, nextToken, now,
                   issued, loggedOut, loggedOutAll, plaintext, denials>>

\* findUserById, then the new access token
RefUser(p) ==
    /\ proc[p].pc = "ref_user"
    /\ LET r == Called(proc[p])
           user == findUserById(r.storedToken.user_id)
       IN  IF user = NoUser
           THEN /\ Continue(p, Reply(r, RefreshNoUserResp))
                /\ UNCHANGED <<tokens, accessIssued>>
           ELSE /\ tokens' = RefreshTokensAfter(r.storedToken)
                /\ accessIssued' = accessIssued \cup {generateAccessToken(user.id, user.email)}
                /\ Continue(p, Reply([r EXCEPT !.user = user,
                                               !.wrote = @ + Cardinality(tokens \ tokens')],
                                     Resp(200, [accessToken |->
                                                  generateAccessToken(user.id, user.email)])))
    /\ UNCHANGED <<pool, reportVars, users, nextUserId, nextToken, now, reqs,
                   issued, loggedOut, loggedOutAll, plaintext, denials>>

-----------------------------------------------------------------------------
\* POST /auth/logout

LogoutOkResp == Resp(200, [success |-> TRUE, message |-> "Logged out successfully"])

\* The token check, then deleteRefreshToken.
Logout(p, token) ==
    /\ LET r == [Idle EXCEPT !.kind = "logout", !.refreshToken = token,
                             !.afterLogout = token \in loggedOut]
       IN  IF token = NoString
           THEN /\ Arrive(p, Reply(r, RefreshMissingResp))
                /\ UNCHANGED <<tokens, loggedOut>>
           ELSE /\ tokens' = deleteRefreshToken(token)
                /\ loggedOut' = loggedOut \cup {token}
                /\ Arrive(p, Reply([Called(r) EXCEPT !.wrote = Cardinality(tokens \ tokens')],
                                   LogoutOkResp))
    /\ UNCHANGED <<pool, accessIssued, reportVars, users, nextUserId, nextToken, now, issued, loggedOutAll,
                   plaintext, denials>>

-----------------------------------------------------------------------------
\* POST /auth/logout-all

LogoutAllMissingResp == Resp(400, ErrorBody("User ID is required"))
LogoutAllOkResp == Resp(200, [success |-> TRUE, message |-> "Logged out from all devices"])

\* Variant: the route is protected like the report routes.
LogoutAllPreHandler_Authenticate(authHeader) == authenticateToken(authHeader)

\* The preHandler of the route: an empty function.
LogoutAllPreHandler(authHeader) == NoResp

\* The preHandler, the user id check, then deleteUserRefreshTokens.  The user
\* id comes from the request body; ids are small numbers, so a client can name
\* any of them, also one not handed out yet.  The request carries no
\* Authorization header.
LogoutAll(p, userId) ==
    /\ LET r == [Idle EXCEPT !.kind = "logout-all", !.userId = userId,
                             !.authorization = NoHeader]
       IN  IF LogoutAllPreHandler(r.authorization) # NoResp
           THEN /\ Arrive(p, Reply(r, LogoutAllPreHandler(r.authorization)))
                /\ UNCHANGED <<tokens, loggedOutAll>>
           ELSE IF userId = 0
           THEN /\ Arrive(p, Reply(r, LogoutAllMissingResp))
                /\ UNCHANGED <<tokens, loggedOutAll>>
           ELSE /\ tokens' = deleteUserRefreshTokens(userId)
                /\ loggedOutAll' = loggedOutAll \cup
                                     {i.token : i \in {j \in issued : j.user_id = userId}}
                /\ Arrive(p, Reply([Called(r) EXCEPT !.wrote = Cardinality(tokens \ tokens')],
                                   LogoutAllOkResp))
    /\ UNCHANGED <<pool, accessIssued, reportVars, users, nextUserId, nextToken, now, issued, loggedOut,
                   plaintext, denials>>

-----------------------------------------------------------------------------
\* The environment

Tick(d) ==
    /\ now < MaxTicks * RefreshLifetime
    /\ now' = now + d
    /\ proc' = Delivered
    /\ UNCHANGED <<pool, accessIssued, reportVars, users, tokens, nextUserId, nextToken, reqs,
                   issued, loggedOut, loggedOutAll, plaintext, denials>>

\* new Pool({max: 20, ...}): no client is checked out.
NoClients ==
    [waiting |-> 0, querying |-> 0, checkedOut |-> 0,
     threw |-> FALSE,         \* history: a query has thrown
     full |-> FALSE]          \* history: max clients have been checked out at once

Init ==
    /\ users = {}
    /\ tokens = {}
    /\ nextUserId = 1
    /\ nextToken = 1
    /\ now = 0
    /\ reqs = 0
    /\ proc = [p \in Procs |-> Idle]
    /\ issued = {}
    /\ loggedOut = {}
    /\ loggedOutAll = {}
    /\ plaintext = {}
    /\ denials = {}
    /\ accessIssued = {}
    /\ reports = {}
    /\ nextReportId = 1
    /\ pool = NoClients

Next ==
    \/ \E p \in Procs, b \in RegisterRequests : Register(p, b[1], b[2])
    \/ \E p \in Procs : RegCreate(p)
    \/ \E p \in Procs : RegToken(p)
    \/ \E p \in Procs, b \in LoginRequests : Login(p, b[1], b[2])
    \/ \E p \in Procs : LoginToken(p)
    \/ \E p \in Procs, t \in ClientTokens : Refresh(p, t)
    \/ \E p \in Procs : RefUser(p)
    \/ \E p \in Procs, t \in ClientTokens : Logout(p, t)
    \/ \E p \in Procs, u \in 0..nextUserId : LogoutAll(p, u)
    \/ \E d \in TickSteps : Tick(d)

Spec == Init /\ [][Next]_vars

-----------------------------------------------------------------------------
\* routes/reports.ts, with the register route as the source of users and of
\* access tokens, and the clock of the refresh tokens, which takes every access
\* token past its expiry.
\* A report is the JSON document of the request body; a row of table reports
\* is its id, its owner and the document (the columns copied out of the
\* document are left out).

MaxReportRequests == 2

ReportA == <<"r">>
ReportBodies == {ReportA, NoString}

ReportUsers == {<<EmailLower, Passw0rd>>, <<EmailOther, Valid123>>}

NoReportRow == [id |-> 0, user_id |-> 0, data |-> NoString]

\* The columns the list queries select: no user_id.
ReportSummary(row) == [id |-> row.id, data |-> row.data]

\* Variant: the delete does not look at the owner.
deleteReport_AnyOwner(reportId, userId) == {r \in reports : r.id # reportId}

\* SELECT COUNT(*) FROM reports WHERE user_id = $1
countReportsByUser(userId) == Cardinality({r \in reports : r.user_id = userId})

\* SELECT ... FROM reports WHERE user_id = $1 ... LIMIT 50 OFFSET 0
selectReportsByUser(userId) == {r \in reports : r.user_id = userId}

getReportById(reportId) ==
    LET rows == {r \in reports : r.id = reportId}
    IN  IF rows # {} THEN CHOOSE r \in rows : TRUE ELSE NoReportRow

\* DELETE FROM reports WHERE id = $1 AND user_id = $2
deleteReport(reportId, userId) == {r \in reports : ~(r.id = reportId /\ r.user_id = userId)}

\* SELECT ... FROM reports ORDER BY created_at DESC LIMIT 10
getRecentReports == reports

ReportMissingResp == Resp(400, ErrorBody("Missing required field: report"))
ReportSaveFailedResp == Resp(500, ErrorBody("Failed to save report"))
ReportInvalidIdResp == Resp(400, ErrorBody("Invalid report ID"))
ReportNotFoundResp == Resp(404, ErrorBody("Report not found"))
ReportForbiddenResp == Resp(403, ErrorBody("Unauthorized"))
ReportNotDeletedResp == Resp(404, ErrorBody("Report not found or unauthorized"))
ReportDeletedResp == Resp(200, [success |-> TRUE, message |-> "Report deleted successfully"])

\* A report request is accepted after the registrations have used their share
\* of the requests, too.
ArriveReport(p, r) ==
    /\ reqs < MaxRequests + MaxReportRequests
    /\ Free(p)
    /\ \A q \in Procs : q < p => ~Free(q)
    /\ reqs' = reqs + 1
    /\ proc' = [Delivered EXCEPT ![p] = r]

\* The Authorization headers a client can send: none, a token it was given
\* under another scheme, a token it was given, and one it made from that by
\* putting in another user id.
ReportHeaders ==
    {NoHeader}
    \cup {Header("Basic ", t) : t \in accessIssued}
    \cup {Header("Bearer ", t) : t \in accessIssued}
    \cup UNION {{Header("Bearer ", [t EXCEPT !.userId = u.id]) :
                    u \in {v \in users : v.id # t.userId}} : t \in accessIssued}

\* params.id as parseInt returns it: the ids handed out, the next one, and
\* 0 for a text that is no number.
ReportIdParams == 0..nextReportId

\* {preHandler: authenticateToken} of the four routes that have it.
ReportPreHandler(authHeader) == authenticateToken(authHeader)

\* The request as the handler gets it: request.user is set by the preHandler.
ReportRequest(kind, authHeader) ==
    [Idle EXCEPT !.kind = kind, !.authorization = authHeader, !.at = now,
                 !.unauth = authenticateToken(authHeader) # NoResp,
                 !.revoked = /\ \E i \in issued : i.user_id = authHeader[2].userId
                             /\ \A i \in issued : i.user_id = authHeader[2].userId
                                                  => i.token \in loggedOut \cup loggedOutAll,
                 !.claims = verifyAccessToken(authHeader[2])]

\* POST /reports: createReport.  The insert is rejected when user_id is the id
\* of no user.
CreateReport(p, authHeader, report) ==
    /\ LET r == [ReportRequest("report-create", authHeader) EXCEPT !.report = report]
           row == [id |-> nextReportId, user_id |-> r.claims.userId, data |-> report]
       IN  IF ReportPreHandler(authHeader) # NoResp
           THEN /\ ArriveReport(p, Reply(r, ReportPreHandler(authHeader)))
                /\ UNCHANGED reportVars
           ELSE IF report = NoString
           THEN /\ ArriveReport(p, Reply(r, ReportMissingResp))
                /\ UNCHANGED reportVars
           ELSE /\ nextReportId' = nextReportId + 1
                /\ IF UserIdExists(row.user_id)
                   THEN /\ reports' = reports \cup {row}
                        /\ ArriveReport(p, Reply([Called(r) EXCEPT !.wrote = 1, !.rows = {row}],
                                                 Resp(201, [success |-> TRUE, reportId |-> row.id])))
                   ELSE /\ UNCHANGED reports
                        /\ ArriveReport(p, Reply(Called(r), ReportSaveFailedResp))
    /\ UNCHANGED <<pool, users, tokens, nextUserId, nextToken, now, issued, loggedOut,
                   loggedOutAll, plaintext, denials, accessIssued>>

\* GET /reports: the first statement of getReportsByUser, the count.
ListReports(p, authHeader) ==
    /\ LET r == ReportRequest("report-list", authHeader)
       IN  IF ReportPreHandler(authHeader) # NoResp
           THEN ArriveReport(p, Reply(r, ReportPreHandler(authHeader)))
           ELSE ArriveReport(p, [Called(r) EXCEPT !.pc = "list_rows",
                                                 !.total = countReportsByUser(r.claims.userId)])
    /\ UNCHANGED <<pool, users, tokens, nextUserId, nextToken, now, issued, loggedOut,
                   loggedOutAll, plaintext, denials, accessIssued, reportVars>>

\* GET /reports: the second statement of getReportsByUser, the rows, and the
\* response.
ListRows(p) ==
    /\ proc[p].pc = "list_rows"
    /\ LET r == proc[p]
           rows == selectReportsByUser(r.claims.userId)
       IN  Continue(p, Reply([r EXCEPT !.rows = rows],
                             Resp(200, [reports |-> {ReportSummary(row) : row \in rows},
                                        total |-> r.total])))
    /\ UNCHANGED <<pool, users, tokens, nextUserId, nextToken, now, reqs, issued, loggedOut,
                   loggedOutAll, plaintext, denials, accessIssued, reportVars>>

\* GET /reports/:id
GetReport(p, authHeader, id) ==
    /\ LET r == [ReportRequest("report-get", authHeader) EXCEPT !.reportId = id]
           report == getReportById(id)
       IN  IF ReportPreHandler(authHeader) # NoResp
           THEN ArriveReport(p, Reply(r, ReportPreHandler(authHeader)))
           ELSE IF id = 0
           THEN ArriveReport(p, Reply(r, ReportInvalidIdResp))
           ELSE IF report = NoReportRow
           THEN ArriveReport(p, Reply(Called(r), ReportNotFoundResp))
           ELSE IF report.user_id # r.claims.userId
           THEN ArriveReport(p, Reply(Called(r), ReportForbiddenResp))
           ELSE ArriveReport(p, Reply([Called(r) EXCEPT !.rows = {report}],
                                      Resp(200, [report |-> report])))
    /\ UNCHANGED <<pool, users, tokens, nextUserId, nextToken, now, issued, loggedOut,
                   loggedOutAll, plaintext, denials, accessIssued, reportVars>>

\* DELETE /reports/:id
DeleteReport(p, authHeader, id) ==
    /\ LET r == [ReportRequest("report-delete", authHeader) EXCEPT !.reportId = id]
           deleted == reports \ deleteReport(id, r.claims.userId)
       IN  IF ReportPreHandler(authHeader) # NoResp
           THEN /\ ArriveReport(p, Reply(r, ReportPreHandler(authHeader)))
                /\ UNCHANGED reports
           ELSE IF id = 0
           THEN /\ ArriveReport(p, Reply(r, ReportInvalidIdResp))
                /\ UNCHANGED reports
           ELSE /\ reports' = deleteReport(id, r.claims.userId)
                /\ ArriveReport(p, Reply([Called(r) EXCEPT !.rows = deleted,
                                                           !.wrote = Cardinality(deleted)],
                                         IF deleted = {} THEN ReportNotDeletedResp
                                                         ELSE ReportDeletedResp))
    /\ UNCHANGED <<pool, users, tokens, nextUserId, nextToken, now, issued, loggedOut,
                   loggedOutAll, plaintext, denials, accessIssued, nextReportId>>

\* GET /reports/recent: registered without a preHandler.  The router matches
\* the static path before the parametric /reports/:id.
RecentReports(p, authHeader) ==
    /\ LET r == ReportRequest("report-recent", authHeader)
       IN  ArriveReport(p, Reply([Called(r) EXCEPT !.rows = getRecentReports],
                                 Resp(200, [reports |-> {ReportSummary(row) :
                                                           row \in getRecentReports}])))
    /\ UNCHANGED <<pool, users, tokens, nextUserId, nextToken, now, issued, loggedOut,
                   loggedOutAll, plaintext, denials, accessIssued, reportVars>>

NextReports ==
    \/ \E p \in Procs, b \in ReportUsers : Register(p, b[1], b[2])
    \/ \E p \in Procs : RegCreate(p)
    \/ \E p \in Procs : RegToken(p)
    \/ \E p \in Procs, h \in ReportHeaders, b \in ReportBodies : CreateReport(p, h, b)
    \/ \E p \in Procs, h \in ReportHeaders : ListReports(p, h)
    \/ \E p \in Procs : ListRows(p)
    \/ \E p \in Procs, h \in ReportHeaders, id \in ReportIdParams : GetReport(p, h, id)
    \/ \E p \in Procs, h \in ReportHeaders, id \in ReportIdParams : DeleteReport(p, h, id)
    \/ \E p \in Procs, h \in ReportHeaders : RecentReports(p, h)
    \/ \E d \in TickSteps : Tick(d)

SpecReports == Init /\ [][NextReports]_vars

-----------------------------------------------------------------------------
\* The register route on its own, with passwords of every kind.

PolicyRequests == {<<EmailLower, pw>> : pw \in Passwords \ {NoString}}

NextPolicy ==
    \/ \E p \in Procs, b \in PolicyRequests : Register(p, b[1], b[2])
    \/ \E p \in Procs : RegCreate(p)
    \/ \E p \in Procs : RegToken(p)

SpecPolicy == Init /\ [][NextPolicy]_vars

-----------------------------------------------------------------------------
\* config/jwt.ts on its own: tokens are signed for claims drawn from a small
\* set, at any minute, and verified at any later minute, as signed and altered.

MaxSigned == 1
MaxClaimUserId == 2
MaxLateMinutes == 2

MinuteSteps == {1, AccessExpiryMinutes - 1}

SignToken(userId, email) ==
    /\ Cardinality(accessIssued) < MaxSigned
    /\ accessIssued' = accessIssued \cup {generateAccessToken(userId, email)}
    /\ proc' = Delivered
    /\ UNCHANGED <<pool, users, tokens, nextUserId, nextToken, now, reqs, issued, loggedOut,
                   loggedOutAll, plaintext, denials, reportVars>>

\* What a client can make of a token it holds: other claims or a later expiry
\* under the old signature, a signature made with another secret, the token
\* cut off before its signature.
Altered(t) ==
    {[t EXCEPT !.userId = u] : u \in (1..MaxClaimUserId) \ {t.userId}}
    \cup {[t EXCEPT !.exp = @ + AccessExpiryMinutes],
          [t EXCEPT !.sig = Signature("secret", t.userId, t.email, t.iat, t.exp)],
          [t EXCEPT !.sig = <<>>]}

PresentedTokens == accessIssued \cup UNION {Altered(t) : t \in accessIssued}

VerifyToken(token) ==
    /\ proc' = [Delivered EXCEPT ![1] =
                  Reply([Idle EXCEPT !.kind = "verify", !.accessToken = token, !.at = now,
                                     !.claims = verifyAccessToken(token)], NoResp)]
    /\ UNCHANGED <<pool, users, tokens, nextUserId, nextToken, now, reqs, issued, loggedOut,
                   loggedOutAll, plaintext, denials, accessIssued, reportVars>>

MinuteTick(d) ==
    /\ now + d <= AccessExpiryMinutes + MaxLateMinutes
    /\ now' = now + d
    /\ proc' = Delivered
    /\ UNCHANGED <<pool, users, tokens, nextUserId, nextToken, reqs, issued, loggedOut,
                   loggedOutAll, plaintext, denials, accessIssued, reportVars>>

NextJwt ==
    \/ \E u \in 1..MaxClaimUserId, e \in {EmailLower, EmailOther} : SignToken(u, e)
    \/ \E t \in PresentedTokens : VerifyToken(t)
    \/ \E d \in MinuteSteps : MinuteTick(d)

SpecJwt == Init /\ [][NextJwt]_vars

-----------------------------------------------------------------------------
\* A protected route and the session routes: access tokens are presented to
\* GET /reports while the sessions they came from are refreshed and logged out,
\* and the clock passes the access tokens' expiry and the sessions' expiry.

\* The Authorization headers of clients that present a token they were given.
SessionHeaders == {Header("Bearer ", t) : t \in accessIssued}

NextSession ==
    \/ \E p \in Procs, b \in ReportUsers : Register(p, b[1], b[2])
    \/ \E p \in Procs : RegCreate(p)
    \/ \E p \in Procs : RegToken(p)
    \/ \E p \in Procs, b \in ReportUsers : Login(p, b[1], b[2])
    \/ \E p \in Procs : LoginToken(p)
    \/ \E p \in Procs, t \in ClientTokens : Refresh(p, t)
    \/ \E p \in Procs : RefUser(p)
    \/ \E p \in Procs, t \in ClientTokens : Logout(p, t)
    \/ \E p \in Procs, u \in 0..nextUserId : LogoutAll(p, u)
    \/ \E p \in Procs, h \in SessionHeaders : ListReports(p, h)
    \/ \E p \in Procs : ListRows(p)
    \/ MinuteTick(AccessExpiryMinutes)
    \/ \E d \in TickSteps : Tick(d)

SpecSession == Init /\ [][NextSession]_vars

-----------------------------------------------------------------------------
\* The service with a failing store: any repository call can throw (no
\* connection from the pool, a query the server aborts), and then it has
\* changed nothing.

RefreshFailedResp == Resp(500, ErrorBody("Failed to refresh token"))
LogoutFailedResp == Resp(500, ErrorBody("Failed to logout"))

\* The catch block of each handler.
FailedResp(kind) ==
    CASE kind = "register" -> RegisterFailedResp
      [] kind = "login" -> LoginFailedResp
      [] kind = "refresh" -> RefreshFailedResp
      [] kind = "logout" -> LogoutFailedResp
      [] kind = "logout-all" -> LogoutFailedResp

\* Variant: the handler stays where it is, to make the call again.
OnStoreFailure_Retry(r) == [Called(r) EXCEPT !.failed = r.calls + 1]

\* Variant: the catch block logs the error and sends nothing.
OnStoreFailure_Silent(r) == [Called(r) EXCEPT !.failed = r.calls + 1, !.pc = "hung"]

\* A repository call of request r throws: control passes to the catch block,
\* which logs the error and sends the response.
OnStoreFailure(r) == Reply([Called(r) EXCEPT !.failed = r.calls + 1], FailedResp(r.kind))

\* The first repository call of a handler throws.
RegisterFault(p, email, password) ==
    /\ RegisterValidation(email, password) = NoResp
    /\ Arrive(p, OnStoreFailure([Idle EXCEPT !.kind = "register", !.pc = "reg_find",
                                             !.email = email, !.password = password]))
    /\ UNCHANGED <<pool, users, tokens, nextUserId, nextToken, now, issued, loggedOut,
                   loggedOutAll, plaintext, denials, accessIssued, reportVars>>

LoginFault(p, email, password) ==
    /\ LoginValidation(email, password) = NoResp
    /\ Arrive(p, OnStoreFailure([Idle EXCEPT !.kind = "login", !.pc = "login_find",
                                             !.email = email, !.password = password]))
    /\ UNCHANGED <<pool, users, tokens, nextUserId, nextToken, now, issued, loggedOut,
                   loggedOutAll, plaintext, denials, accessIssued, reportVars>>

RefreshFault(p, token) ==
    /\ token # NoString
    /\ Arrive(p, OnStoreFailure([Idle EXCEPT !.kind = "refresh", !.pc = "ref_find",
                                             !.refreshToken = token]))
    /\ UNCHANGED <<pool, users, tokens, nextUserId, nextToken, now, issued, loggedOut,
                   loggedOutAll, plaintext, denials, accessIssued, reportVars>>

LogoutFault(p, token) ==
    /\ token # NoString
    /\ Arrive(p, OnStoreFailure([Idle EXCEPT !.kind = "logout", !.pc = "logout_delete",
                                             !.refreshToken = token]))
    /\ UNCHANGED <<pool, users, tokens, nextUserId, nextToken, now, issued, loggedOut,
                   loggedOutAll, plaintext, denials, accessIssued, reportVars>>

LogoutAllFault(p, userId) ==
    /\ userId # 0
    /\ Arrive(p, OnStoreFailure([Idle EXCEPT !.kind = "logout-all", !.pc = "logout_all_delete",
                                             !.userId = userId]))
    /\ UNCHANGED <<pool, users, tokens, nextUserId, nextToken, now, issued, loggedOut,
                   loggedOutAll, plaintext, denials, accessIssued, reportVars>>

\* A later repository call of a handler throws: createUser, createRefreshToken
\* or findUserById.
StepFault(p) ==
    /\ proc[p].pc \in {"reg_create", "reg_token", "login_token", "ref_user"}
    /\ Continue(p, OnStoreFailure(proc[p]))
    /\ UNCHANGED <<pool, users, tokens, nextUserId, nextToken, now, reqs, issued, loggedOut,
                   loggedOutAll, plaintext, denials, accessIssued, reportVars>>

NextFault ==
    \/ Next
    \/ \E p \in Procs, b \in RegisterRequests : RegisterFault(p, b[1], b[2])
    \/ \E p \in Procs, b \in LoginRequests : LoginFault(p, b[1], b[2])
    \/ \E p \in Procs, t \in ClientTokens : RefreshFault(p, t)
    \/ \E p \in Procs, t \in ClientTokens : LogoutFault(p, t)
    \/ \E p \in Procs, u \in 0..nextUserId : LogoutAllFault(p, u)
    \/ \E p \in Procs : StepFault(p)

SpecFault == Init /\ [][NextFault]_vars

\* The step of the handler in slot p that its pending repository call leads
\* to: the call returns and the handler runs on, or the call throws.
HandlerStep(p) ==
    \/ RegCreate(p)
    \/ RegToken(p)
    \/ LoginToken(p)
    \/ RefUser(p)
    \/ StepFault(p)

\* Every repository call returns or throws in the end: a handler that waits
\* for one does not wait for ever.  (The pool gives up on a connection after
\* connectionTimeoutMillis; a query ends with the statement.)
SpecLive == Init /\ [][NextFault]_vars /\ \A p \in Procs : WF_vars(HandlerStep(p))

-----------------------------------------------------------------------------
\* The service with users being deleted.

\* DELETE FROM users WHERE id = ..., run on the database from outside the
\* service.  refresh_tokens.user_id and reports.user_id are declared
\* REFERENCES users(id) ON DELETE CASCADE: the user's rows go with it.
DeleteUser(u) ==
    /\ users' = users \ {u}
    /\ tokens' = {r \in tokens : r.user_id # u.id}
    /\ reports' = {r \in reports : r.user_id # u.id}
    /\ proc' = Delivered
    /\ UNCHANGED <<pool, nextUserId, nextToken, now, reqs, issued, loggedOut, loggedOutAll,
                   plaintext, denials, accessIssued, nextReportId>>

NextDelete ==
    \/ Next
    \/ \E u \in users : DeleteUser(u)

SpecDelete == Init /\ [][NextDelete]_vars

-----------------------------------------------------------------------------
\* The service with a token generator that repeats itself.
\* generateRefreshToken returns 64 random bytes: nothing keeps it from
\* returning a value it returned before.  The handlers do not look at the value
\* between generating and inserting it, so the repetition is a step of its own:
\* the value generated for the request in slot p turns out to be token, a value
\* handed out earlier.

RepeatToken(p, token) ==
    /\ proc[p].pc \in {"reg_token", "login_token"}
    /\ proc[p].newToken # token
    /\ Continue(p, [proc[p] EXCEPT !.newToken = token])
    /\ UNCHANGED <<pool, users, tokens, nextUserId, nextToken, now, reqs, issued, loggedOut,
                   loggedOutAll, plaintext, denials, accessIssued, reportVars>>

NextCollision ==
    \/ NextDelete
    \/ \E p \in Procs, i \in issued : RepeatToken(p, i.token)

SpecCollision == Init /\ [][NextCollision]_vars

-----------------------------------------------------------------------------
\* The connection pool.  Every repository function has the same shape:
\*     const client = await pool.connect();
\*     try { ... await client.query(...) ... } finally { client.release(); }
\* In the other specifications a repository call is one step, and the pool is
\* after the step as it was before it.  Here the call is taken apart: the
\* operation waits for a client, holds it while its queries run, and gives it
\* back when the try block is left.  Operations are counted, not told apart:
\* any number of handlers up to MaxOperations can be inside a repository
\* function at once.

RepositoryCall ==
    /\ pool.waiting + pool.querying < MaxOperations
    /\ pool' = [pool EXCEPT !.waiting = @ + 1]
    /\ UNCHANGED <<users, tokens, nextUserId, nextToken, now, reqs, proc, issued, loggedOut,
                   loggedOutAll, plaintext, denials, accessIssued, reportVars>>

\* pool.connect() resolves: the pool hands out a client while fewer than max
\* are checked out.
PoolConnect ==
    /\ pool.waiting > 0
    /\ pool.checkedOut < PoolMax
    /\ pool' = [pool EXCEPT !.waiting = @ - 1, !.querying = @ + 1,
                            !.checkedOut = @ + 1,
                            !.full = @ \/ pool.checkedOut + 1 = PoolMax]
    /\ UNCHANGED <<users, tokens, nextUserId, nextToken, now, reqs, proc, issued, loggedOut,
                   loggedOutAll, plaintext, denials, accessIssued, reportVars>>

\* pool.connect() rejects (no client within connectionTimeoutMillis, or no
\* connection to the database): the function throws before its try block.
PoolConnectFails ==
    /\ pool.waiting > 0
    /\ pool' = [pool EXCEPT !.waiting = @ - 1]
    /\ UNCHANGED <<users, tokens, nextUserId, nextToken, now, reqs, proc, issued, loggedOut,
                   loggedOutAll, plaintext, denials, accessIssued, reportVars>>

\* Variant: the release is the last statement of the try block.
ReleaseAfterThrow_Leak(checkedOut) == checkedOut

\* finally { client.release(); } after the function's return statement.
ReleaseAfterReturn(checkedOut) == checkedOut - 1

\* finally { client.release(); } after a query that threw.
ReleaseAfterThrow(checkedOut) == checkedOut - 1

QueryReturns ==
    /\ pool.querying > 0
    /\ pool' = [pool EXCEPT !.querying = @ - 1, !.checkedOut = ReleaseAfterReturn(@)]
    /\ UNCHANGED <<users, tokens, nextUserId, nextToken, now, reqs, proc, issued, loggedOut,
                   loggedOutAll, plaintext, denials, accessIssued, reportVars>>

QueryThrows ==
    /\ pool.querying > 0
    /\ pool' = [pool EXCEPT !.querying = @ - 1, !.checkedOut = ReleaseAfterThrow(@),
                            !.threw = TRUE]
    /\ UNCHANGED <<users, tokens, nextUserId, nextToken, now, reqs, proc, issued, loggedOut,
                   loggedOutAll, plaintext, denials, accessIssued, reportVars>>

NextPool ==
    \/ RepositoryCall
    \/ PoolConnect
    \/ PoolConnectFails
    \/ QueryReturns
    \/ QueryThrows

SpecPool == Init /\ [][NextPool]_vars

-----------------------------------------------------------------------------
\* Properties

\* The request body passes every check of the register handler.
RegisterInputValid(r) ==
    /\ r.email # NoString
    /\ r.password # NoString
    /\ EmailValid[r.email]
    /\ PasswordCheck[r.password].valid

Answered(r, kind) == r.kind = kind /\ r.pc = "done"

\* C1: a register request with valid input whose lower-cased email is the
\* email of a user already stored when it arrives is answered 409 and creates
\* no row, neither in users nor in refresh_tokens.
C1_DuplicateIsConflict ==
    \A p \in Procs :
        (proc[p].kind = "register" /\ RegisterInputValid(proc[p]) /\ proc[p].dup)
        => /\ proc[p].pc = "done"
           /\ proc[p].resp.status = 409
           /\ proc[p].wrote = 0

\* 'A@B.c' is refused because 'a@b.c' is registered.
C1_Witness ==
    \E p \in Procs :
        /\ Answered(proc[p], "register")
        /\ proc[p].email = EmailUpper
        /\ proc[p].dup
        /\ proc[p].resp.status = 409
        /\ \E u \in users : u.email = EmailLower

\* C2: a register request whose insert into users is rejected by the unique
\* constraint (it made the lookup and the insert and wrote no row) is answered
\* 409, and exactly one row holds its email.
C2_InsertConflictIs409 ==
    \A p \in Procs :
        (Answered(proc[p], "register") /\ proc[p].calls = 2 /\ proc[p].wrote = 0)
        => /\ proc[p].resp.status = 409
           /\ Cardinality({u \in users : u.email = toLowerCase(proc[p].email)}) = 1

\* C3: no two rows of users have the same email, and every stored email is
\* its own lower-cased form.
C3_EmailUnique ==
    \A u \in users :
        /\ u.email = LowerCased[u.email]
        /\ \A v \in users : u.email = v.email => u = v

\* Two registrations of one email in different case raced, and the second
\* insert was rejected.
C3_Witness ==
    \E p \in Procs :
        /\ Answered(proc[p], "register")
        /\ proc[p].email = EmailUpper
        /\ proc[p].calls = 2
        /\ proc[p].wrote = 0
        /\ \E u \in users : u.email = EmailLower

\* C4: a register request with a missing email or password, a malformed email
\* or a password that breaks the policy is answered 400 without any repository
\* call and without writing a row.
C4_ValidationBeforeStore ==
    \A p \in Procs :
        (proc[p].kind = "register" /\ ~RegisterInputValid(proc[p]))
        => /\ proc[p].pc = "done"
           /\ proc[p].resp.status = 400
           /\ proc[p].calls = 0
           /\ proc[p].wrote = 0

\* A weak password with the email of a registered user: 400, not 409.
C4_Witness ==
    \E p \in Procs :
        /\ Answered(proc[p], "register")
        /\ proc[p].password = short1
        /\ proc[p].dup
        /\ proc[p].resp.status = 400

\* C5: a login with the email of a registered user, in any case, is answered
\* 200 with an access token, a stored refresh token and the user view exactly
\* when its password is the one the user registered with; otherwise it is
\* answered 401 and writes no row.
C5_CredentialCheck ==
    \A p \in Procs :
        (/\ Answered(proc[p], "login")
         /\ proc[p].email # NoString
         /\ proc[p].password # NoString
         /\ \E u \in users : u.email = LowerCased[proc[p].email])
        => LET u == CHOOSE u \in users : u.email = LowerCased[proc[p].email]
               body == proc[p].resp.body
           IN  IF <<u.id, proc[p].password>> \in plaintext
               THEN /\ proc[p].resp.status = 200
                    /\ body.user = UserView(u)
                    /\ body.accessToken.userId = u.id
                    /\ \E row \in tokens : /\ row.token = body.refreshToken
                                           /\ row.user_id = u.id
               ELSE /\ proc[p].resp.status = 401
                    /\ proc[p].wrote = 0

\* A login with the registered password, the email in another case than stored.
C5_Witness ==
    \E p \in Procs :
        /\ Answered(proc[p], "login")
        /\ proc[p].email = EmailUpper
        /\ proc[p].resp.status = 200
        /\ \E u \in users : <<u.id, proc[p].password>> \in plaintext

\* C6: all refused logins, whether the email is unknown or the password is
\* wrong, get the same status 401 and the same body, and write no row.
C6_UniformDenial ==
    \A a \in denials :
        /\ a.resp.status = 401
        /\ a.wrote = 0
        /\ \A b \in denials : a.resp = b.resp

\* One login was refused for an unknown email and one for a wrong password.
C6_Witness ==
    \E a \in denials : \E b \in denials : a.known /\ ~b.known

\* C7: the row a refresh gets from findRefreshToken has the token asked for
\* and an expiry after the time of the lookup; a refresh that gets no row, in
\* particular one whose row is expired at the lookup, is answered 401 without
\* an access token.
C7_ExpiredIsAbsent ==
    \A p \in Procs :
        (proc[p].kind = "refresh" /\ proc[p].refreshToken # NoString)
        => /\ proc[p].storedToken # NoRow
              => /\ proc[p].storedToken.token = proc[p].refreshToken
                 /\ proc[p].storedToken.expires_at > proc[p].at
           /\ proc[p].storedToken = NoRow
              => /\ proc[p].pc = "done"
                 /\ proc[p].resp.status = 401
                 /\ "accessToken" \notin DOMAIN proc[p].resp.body
           /\ (\E row \in tokens : /\ row.token = proc[p].refreshToken
                                   /\ row.expires_at <= proc[p].at)
              => /\ proc[p].pc = "done"
                 /\ proc[p].resp.status = 401

\* A refresh was refused while its expired row is still in the table.
C7_Witness ==
    \E p \in Procs :
        /\ Answered(proc[p], "refresh")
        /\ proc[p].resp.status = 401
        /\ \E row \in tokens : /\ row.token = proc[p].refreshToken
                               /\ row.expires_at <= proc[p].at

Revoked(token) == token \in loggedOut \cup loggedOutAll

\* C8: a refresh writes no row and a successful one returns the access token
\* only; the row it used is still stored unless a logout or logout-all removed
\* it, and a refresh that follows a successful refresh of the same token is
\* refused only if the token has expired or has been logged out.
C8_RefreshDoesNotRotate ==
    \A p \in Procs :
        Answered(proc[p], "refresh")
        => /\ proc[p].wrote = 0
           /\ proc[p].resp.status = 200
              => /\ DOMAIN proc[p].resp.body = {"accessToken"}
                 /\ proc[p].storedToken \in tokens \/ Revoked(proc[p].refreshToken)
           /\ (proc[p].again /\ proc[p].resp.status # 200)
              => \/ Revoked(proc[p].refreshToken)
                 \/ \A row \in tokens :
                        row.token = proc[p].refreshToken => row.expires_at <= now

\* A token refreshed successfully a second time.
C8_Witness ==
    \E p \in Procs :
        /\ Answered(proc[p], "refresh")
        /\ proc[p].again
        /\ proc[p].resp.status = 200

C12_LoginAdditive ==
    [][\A p \in Procs :
          (/\ proc[p].pc = "login_token"
           /\ proc'[p].pc = "done"
           /\ proc'[p].resp.status = 200)
          => /\ tokens \subseteq tokens'
             /\ Cardinality(tokens' \ tokens) = 1
             /\ \A row \in tokens' \ tokens :
                    /\ row.user_id = proc[p].user.id
                    /\ row.token = proc'[p].resp.body.refreshToken
             /\ users' = users
             /\ \A i \in issued :
                    findRefreshToken(i.token) # NoRow
                    => findRefreshToken(i.token)' = findRefreshToken(i.token)]_vars

\* After a login the user holds two valid refresh tokens.
C12_Witness ==
    \E p \in Procs :
        /\ Answered(proc[p], "login")
        /\ proc[p].resp.status = 200
        /\ \E a \in tokens : \E b \in tokens :
              /\ a # b
              /\ a.user_id = proc[p].user.id
              /\ b.user_id = proc[p].user.id
              /\ a.expires_at > now
              /\ b.expires_at > now

\* The access token carries the id and the email of user u.
TokenOf(accessToken, u) ==
    /\ accessToken.userId = u.id
    /\ accessToken.email = u.email

\* C13: the access token of a successful register, login or refresh carries
\* the id and email of the user authenticated in that request: the user the
\* register created, the user whose password the login verified, the user who
\* owns the row of the presented refresh token.  The refresh token a register
\* or login returns is the value of exactly one row, a row of that user, and
\* (as long as it has not expired) the lookups of a refresh on it return that
\* row and that user.
C13_TokensBoundToUser ==
    \A p \in Procs :
        LET r == proc[p]
            body == r.resp.body
        IN  /\ (r.pc = "done" /\ r.kind \in {"register", "login"} /\ r.resp.status \in {200, 201})
               => \E u \in users :
                     /\ u.email = LowerCased[r.email]
                     /\ <<u.id, r.password>> \in plaintext
                     /\ body.user = UserView(u)
                     /\ TokenOf(body.accessToken, u)
                     /\ Cardinality({row \in tokens : row.token = body.refreshToken}) = 1
                     /\ \A row \in tokens :
                            row.token = body.refreshToken
                            => /\ row.user_id = u.id
                               /\ row.expires_at > now
                                  => /\ findRefreshToken(body.refreshToken) = row
                                     /\ findUserById(row.user_id) = u
            /\ (Answered(r, "refresh") /\ r.resp.status = 200)
               => \E u \in users :
                     /\ [token |-> r.refreshToken, user_id |-> u.id] \in issued
                     /\ r.storedToken.user_id = u.id
                     /\ TokenOf(body.accessToken, u)

\* With two users registered, a refresh returned an access token.
C13_Witness ==
    \E p \in Procs :
        /\ Answered(proc[p], "refresh")
        /\ proc[p].resp.status = 200
        /\ Cardinality(users) = 2

\* C16: a logout-all request without an Authorization header that names user
\* id u in its body, for any u, is answered 200 and leaves no refresh-token
\* row of user u.
C16_LogoutAllUnauthenticated ==
    \A p \in Procs :
        (/\ Answered(proc[p], "logout-all")
         /\ proc[p].authorization = NoHeader
         /\ proc[p].userId # 0)
        => /\ proc[p].resp = LogoutAllOkResp
           /\ \A row \in tokens : row.user_id # proc[p].userId

\* A request without credentials removed the sessions of a registered user.
C16_Witness ==
    \E p \in Procs :
        /\ Answered(proc[p], "logout-all")
        /\ proc[p].authorization = NoHeader
        /\ UserIdExists(proc[p].userId)
        /\ proc[p].wrote > 0
        /\ proc[p].resp.status = 200

\* C14: every refresh with a non-empty token value that is refused with 401,
\* whether the value was never issued, is expired, or belongs to a user who is
\* gone at the user lookup, gets the body a never-issued value gets.
C14_RefreshFailureUniform ==
    \A p \in Procs :
        (/\ Answered(proc[p], "refresh")
         /\ proc[p].refreshToken # NoString
         /\ proc[p].resp.status = 401)
        => proc[p].resp.body = RefreshInvalidResp.body

\* C15: verifyAccessToken on a token generateAccessToken produced returns the
\* token's userId and email at every time before its expiry and null once the
\* configured lifetime has passed since it was issued; on a token that was not
\* produced by generateAccessToken (altered claims or expiry, a signature made
\* with another secret, no signature) it returns null.  It returns in every
\* case: what jwt.verify throws is caught.
C15_AccessTokenRoundTrip ==
    \A p \in Procs :
        Answered(proc[p], "verify")
        => LET t == proc[p].accessToken
               c == proc[p].claims
           IN  /\ (t \in accessIssued /\ proc[p].at < t.exp)
                  => /\ c.userId = t.userId
                     /\ c.email = t.email
               /\ (t \in accessIssued /\ proc[p].at >= t.iat + AccessExpiryMinutes)
                  => c = NoClaims
               /\ t \notin accessIssued => c = NoClaims
               /\ c = NoClaims \/ jwtVerify(t, AccessSecret).error = ""

\* A token verified at the minute of its expiry, and refused.
C15_Witness ==
    \E p \in Procs :
        /\ Answered(proc[p], "verify")
        /\ proc[p].accessToken \in accessIssued
        /\ proc[p].at = proc[p].accessToken.exp
        /\ proc[p].claims = NoClaims

\* C17: a request of the /auth routes one of whose repository calls threw is
\* answered at once with 500 and the fixed error body of its route; the call
\* that threw stays its last repository call.
C17_StoreFailureIs500 ==
    \A p \in Procs :
        proc[p].failed # 0
        => /\ proc[p].pc = "done"
           /\ proc[p].resp.status = 500
           /\ proc[p].resp = FailedResp(proc[p].kind)
           /\ DOMAIN proc[p].resp.body = {"error"}
           /\ proc[p].calls = proc[p].failed

\* A register whose third repository call, createRefreshToken, threw.
C17_Witness ==
    \E p \in Procs :
        /\ Answered(proc[p], "register")
        /\ proc[p].failed = 3
        /\ proc[p].resp.status = 500

ReportKinds == {"report-create", "report-list", "report-get", "report-delete", "report-recent"}

\* C18: a request to a report route (POST /reports, GET /reports,
\* GET /reports/recent, GET /reports/:id, DELETE /reports/:id) whose
\* Authorization header is missing, does not start with "Bearer " or carries a
\* token verifyAccessToken rejects is answered 401 and makes no repository
\* call; a request that is let through runs with request.user equal to the
\* claims of its token.
C18_ReportsRequireAuth ==
    \A p \in Procs :
        proc[p].kind \in ReportKinds
        => /\ proc[p].unauth
              => /\ proc[p].pc = "done"
                 /\ proc[p].resp.status = 401
                 /\ proc[p].calls = 0
           /\ ~proc[p].unauth
              => /\ proc[p].claims.userId = proc[p].authorization[2].userId
                 /\ proc[p].claims.email = proc[p].authorization[2].email

\* C19: through the routes behind authenticateToken a caller with verified
\* claims userId = u reads and deletes only rows of reports with user_id = u:
\* GET /reports returns rows of u only; GET /reports/:id returns the row when
\* it is u's and answers 403 when the row is another user's; DELETE
\* /reports/:id deletes the row when it is u's, and otherwise answers 404 and
\* deletes nothing.
C19_ReportOwnership ==
    \A p \in Procs :
        LET r == proc[p]
            u == r.claims.userId
        IN  /\ (Answered(r, "report-list") /\ r.resp.status = 200)
               => /\ \A row \in r.rows : row.user_id = u
                  /\ r.resp.body.reports = {ReportSummary(row) : row \in r.rows}
            /\ (Answered(r, "report-get") /\ ~r.unauth /\ r.reportId # 0)
               => /\ r.resp.status = 200
                     => /\ r.resp.body.report.id = r.reportId
                        /\ r.resp.body.report.user_id = u
                  /\ \A row \in reports :
                         row.id = r.reportId
                         => IF row.user_id = u
                            THEN r.resp = Resp(200, [report |-> row])
                            ELSE r.resp.status = 403
            /\ (Answered(r, "report-delete") /\ ~r.unauth /\ r.reportId # 0)
               => /\ \A row \in r.rows : row.id = r.reportId /\ row.user_id = u
                  /\ r.wrote = Cardinality(r.rows)
                  /\ r.resp.status = IF r.rows # {} THEN 200 ELSE 404
                  /\ \A row \in reports :
                         row.id = r.reportId => row.user_id # u /\ r.resp.status = 404

\* A caller asked to delete another user's report: 404, and the row is there.
C19_Witness ==
    \E p \in Procs :
        /\ Answered(proc[p], "report-delete")
        /\ ~proc[p].unauth
        /\ proc[p].resp.status = 404
        /\ \E row \in reports : row.id = proc[p].reportId

\* The four rules of the password policy, and the ones a password breaks.
PolicyRules == {"length", "uppercase", "lowercase", "digit"}

Satisfies(pw, rule) ==
    CASE rule = "length" -> Len(pw) >= 8
      [] rule = "uppercase" -> \E i \in 1..Len(pw) : pw[i] \in {UpperCase[k] : k \in 1..26}
      [] rule = "lowercase" -> \E i \in 1..Len(pw) : pw[i] \in {LowerCase[k] : k \in 1..26}
      [] rule = "digit" -> \E i \in 1..Len(pw) : pw[i] \in Digits

Broken(pw) == {rule \in PolicyRules : ~Satisfies(pw, rule)}

\* C20: the password check is valid exactly for a password of at least 8
\* characters with an upper-case letter, a lower-case letter and a digit, and
\* its errors have one entry for each of the four rules the password breaks;
\* a register with a well-formed email and such a password is answered 400 with
\* all of these entries as details.
C20_PolicyReportsAll ==
    /\ \A pw \in Passwords \ {NoString} :
           /\ isValidPassword(pw).valid <=> Broken(pw) = {}
           /\ isValidPassword(pw).errors = Broken(pw)
    /\ \A p \in Procs :
           (/\ proc[p].kind = "register"
            /\ proc[p].email # NoString
            /\ isValidEmail(proc[p].email)
            /\ proc[p].password # NoString
            /\ Broken(proc[p].password) # {})
           => /\ proc[p].pc = "done"
              /\ proc[p].resp.status = 400
              /\ proc[p].resp.body.details = Broken(proc[p].password)

\* A register refused for a password that breaks all four rules.
C20_Witness ==
    \E p \in Procs :
        /\ Answered(proc[p], "register")
        /\ proc[p].resp.status = 400
        /\ Cardinality(proc[p].resp.body.details) = 4

\* C21: a refresh succeeds only if its findRefreshToken lookup came before
\* every completed logout and logout-all of its token and found the token's
\* row unexpired; and once a logout or logout-all of a token has completed, no
\* row holds the token, whatever refresh was running beside it.
C21_RefreshLogoutRace ==
    /\ \A t \in loggedOut \cup loggedOutAll : ~TokenTaken(t)
    /\ \A p \in Procs :
           (Answered(proc[p], "refresh") /\ proc[p].resp.status = 200)
           => /\ ~proc[p].afterLogout
              /\ ~proc[p].afterLogoutAll
              /\ proc[p].storedToken.token = proc[p].refreshToken
              /\ proc[p].storedToken.expires_at > proc[p].at

\* A refresh whose lookup came first succeeded after the logout had deleted
\* the row.
C21_Witness ==
    \E p \in Procs :
        /\ Answered(proc[p], "refresh")
        /\ proc[p].resp.status = 200
        /\ proc[p].refreshToken \in loggedOut
        /\ ~TokenTaken(proc[p].refreshToken)

\* C22: a register request that ends with any status other than 201 leaves
\* table users as it was: the row it may have inserted is not in the table.
C22_RegisterAllOrNothing ==
    \A p \in Procs :
        (Answered(proc[p], "register") /\ proc[p].resp.status # 201)
        => proc[p].user \notin users

\* C23: a protected route decides on an issued access token from the token
\* alone: the token is refused exactly when the clock has reached its expiry
\* and accepted otherwise, also when every session of its user has been logged
\* out; what a logout stops is the refresh of the logged-out token.
C23_AccessOutlivesRevocation ==
    \A p \in Procs :
        /\ (proc[p].kind = "report-list" /\ proc[p].authorization[2] \in accessIssued)
           => /\ proc[p].unauth <=> proc[p].at >= proc[p].authorization[2].exp
              /\ (proc[p].pc = "done" /\ proc[p].unauth) => proc[p].resp = AuthInvalidResp
              /\ (proc[p].pc = "done" /\ ~proc[p].unauth) => proc[p].resp.status = 200
        /\ (Answered(proc[p], "refresh") /\ (proc[p].afterLogout \/ proc[p].afterLogoutAll))
           => proc[p].resp.status = 401

\* GET /reports answered 200 to a caller whose sessions had all been logged
\* out when the request arrived.
C23_Witness ==
    \E p \in Procs :
        /\ Answered(proc[p], "report-list")
        /\ proc[p].revoked
        /\ proc[p].resp.status = 200

\* C24: the expiry of a session is the time its token was generated plus the
\* configured days; a row of refresh_tokens is inserted with that expiry by
\* the register or login that generated the token, and no step changes the
\* expiry or the owner of a stored row, so that a refresh succeeds only before
\* the expiry the row was created with.
C24_LifetimeFixed ==
    [][/\ \A row \in tokens' :
              (\E old \in tokens : old.token = row.token) => row \in tokens
       /\ \A row \in tokens' \ tokens :
              \E p \in Procs :
                  /\ proc[p].pc \in {"reg_token", "login_token"}
                  /\ row.token = proc[p].newToken
                  /\ row.expires_at = proc[p].refreshExpiry
       /\ \A p \in Procs :
              /\ (/\ proc[p].pc \notin {"reg_token", "login_token"}
                  /\ proc'[p].pc \in {"reg_token", "login_token"})
                 => proc'[p].refreshExpiry = now + RefreshExpiryDays * MinutesPerDay
              /\ (Answered(proc'[p], "refresh") /\ proc'[p].resp.status = 200)
                 => /\ proc'[p].at < proc'[p].storedToken.expires_at
                    /\ \E i \in issued : i.token = proc'[p].storedToken.token]_vars

\* A token used some time after it was created: the refresh succeeds and the
\* row still expires when it did before.
C24_Witness ==
    \E p \in Procs :
        /\ Answered(proc[p], "refresh")
        /\ proc[p].resp.status = 200
        /\ proc[p].at > 0
        /\ proc[p].storedToken \in tokens
        /\ proc[p].storedToken.expires_at < proc[p].at + RefreshExpiryDays * MinutesPerDay

\* C25: the step of a logout request removes at most one row of
\* refresh_tokens, the row that holds the request's token, and the step of a
\* logout-all request removes the rows of the request's user id, all of them
\* and no row of another user; neither changes another row or table users.
C25_RevocationFrame ==
    [][\A p \in Procs :
          /\ Answered(proc'[p], "logout")
             => /\ tokens' \subseteq tokens
                /\ Cardinality(tokens \ tokens') <= 1
                /\ \A row \in tokens \ tokens' : row.token = proc'[p].refreshToken
                /\ users' = users
          /\ Answered(proc'[p], "logout-all")
             => /\ tokens' \subseteq tokens
                /\ \A row \in tokens : row \in tokens' <=> row.user_id # proc'[p].userId
                /\ users' = users]_vars

\* A logout that removed its row and left the owner's other session stored.
C25_Witness ==
    \E p \in Procs :
        /\ Answered(proc[p], "logout")
        /\ proc[p].wrote = 1
        /\ \E i \in issued :
               /\ i.token = proc[p].refreshToken
               /\ \E row \in tokens : row.user_id = i.user_id

\* Table refresh_tokens holds a token value in at most one row, and every row
\* belongs to a stored user.
SessionStoreIntegrity ==
    /\ \A a, b \in tokens : a.token = b.token => a = b
    /\ \A row \in tokens : \E u \in users : u.id = row.user_id

\* C26: refresh_tokens holds each token value in at most one row and every row
\* belongs to a stored user, before and after every step; and the insert of a
\* register or login whose generated token is the token of a stored row is
\* rejected: the table is left as it was and the request is answered 500
\* without a token.
C26_SessionStoreIntegrity ==
    [][/\ SessionStoreIntegrity
       /\ SessionStoreIntegrity'
       /\ \A p \in Procs :
              (/\ proc[p].pc \in {"reg_token", "login_token"}
               /\ proc'[p].pc = "done"
               /\ \E row \in tokens : row.token = proc[p].newToken)
              => /\ tokens' = tokens
                 /\ proc'[p].resp.status = 500
                 /\ DOMAIN proc'[p].resp.body = {"error"}]_vars

\* A register or login answered 500 because its token is the token of another
\* user's stored session.
C26_Witness ==
    \E p \in Procs :
        /\ proc[p].kind \in {"register", "login"}
        /\ proc[p].pc = "done"
        /\ proc[p].resp.status = 500
        /\ \E row \in tokens :
               /\ row.token = proc[p].newToken
               /\ row.user_id # proc[p].user.id

\* C27: the clients checked out of the pool are the clients of the repository
\* operations that are inside their try block: there is none when no
\* operation is in progress, and there are never more than the pool's maximum.
C27_ClientsReleased ==
    /\ pool.checkedOut = pool.querying
    /\ (pool.waiting = 0 /\ pool.querying = 0) => pool.checkedOut = 0
    /\ pool.checkedOut <= PoolMax

\* No operation is in progress, after a query has thrown and after the pool
\* has been used up.
C27_Witness ==
    /\ pool.waiting = 0
    /\ pool.querying = 0
    /\ pool.threw
    /\ pool.full

\* C28: every register, login, refresh, logout and logout-all request is
\* answered, and answered once: a handler that has not sent its response sends
\* it in the end, whichever of its repository calls return and whichever
\* throw; a slot holds a response exactly when its handler has finished, and a
\* handler that has finished takes no further step.
C28_AnsweredOnce ==
    /\ \A p \in Procs : (proc[p].pc \notin {"idle", "done"}) ~> (proc[p].pc = "done")
    /\ [][\A p \in Procs :
             /\ proc[p].resp # NoResp <=> proc[p].pc = "done"
             /\ proc'[p].resp # NoResp <=> proc'[p].pc = "done"
             /\ proc[p].pc = "done"
                => \/ proc'[p] = Idle
                   \/ proc'[p].calls <= 1 /\ reqs' = reqs + 1]_vars

\* A refresh answered by the catch block after its second repository call,
\* findUserById, threw.
C28_Witness ==
    \E p \in Procs :
        /\ Answered(proc[p], "refresh")
        /\ proc[p].failed = 2
        /\ proc[p].resp = RefreshFailedResp

====
